---------------------------- MODULE Spec2Model ----------------------------
(***************************************************************************)
(* Model of the SparkMinda dashboard (src/unnamed/part_000, the current    *)
(* revision of src/frontend/src/App.js): the chart pipeline                *)
(* processedChartData -> PerformanceChart (yDomain, minPoint/maxPoint,     *)
(* visibleMinMaxPoints) and the ten threshold state slots behind           *)
(* getCurrentThreshold / updateThreshold.                                  *)
(*                                                                         *)
(* JavaScript values are modelled as records [type, num, inf]:             *)
(*   type "number"    : a number; inf = 0 and num its (integer) value, or  *)
(*                      inf = 1 / -1 for Infinity / -Infinity              *)
(*   type "undefined" : a missing key                                      *)
(*   type "null"      : JSON null                                          *)
(*   type "string"    : a non-numeric JSON value                           *)
(* Readings carry integer values; range * 0.1 is then a number of tenths,  *)
(* and the arithmetic of yDomain is done exactly in tenths.                *)
(***************************************************************************)
EXTENDS Integers, Sequences, FiniteSets, TLC

VARIABLES
    chartData,             \* useState([]) : the stored raw series
    selectedParameter,     \* useState('metal_temperature')
    thresholds,            \* the ten threshold state slots, by slot name
    nEdits,                \* number of threshold edits stored so far (bounded)
    lastUpdate,            \* how the last updateThreshold call ended
    processedChartData,    \* useMemo : the series handed to PerformanceChart
    yDomain,               \* PerformanceChart : the Y axis domain
    visibleMinMaxPoints,   \* PerformanceChart : the data of the Min/Max layer
    currentThreshold,      \* getCurrentThreshold() : the thresholds prop
    referenceLines,        \* PerformanceChart : the two ReferenceLine elements
    appStatus,             \* useState('initializing')
    selectedMachine,       \* useState('')
    availableFeatures,     \* useState([])
    inFlight,              \* the chart_data requests awaiting their response
    nRequests,             \* number of chart_data requests issued (bounded)
    failed,                \* whether some chart_data request has failed
    isConnected,           \* useState(false)
    isLoading,             \* useState(false)
    isUploading,           \* useState(false)
    machines,              \* useState([])
    selectedFile,          \* useState(null) : whether a file is chosen
    ops,                   \* the loads, uploads and retrains in progress
    nOps,                  \* number of operations started (bounded)
    nTicks,                \* number of polling ticks (bounded)
    nPolls                 \* number of ticks that re-fetched alerts and metrics

\* what a render computes from the state
renderVars ==
    <<processedChartData, yDomain, visibleMinMaxPoints,
      currentThreshold, referenceLines>>

\* the state behind the chart_data requests
fetchVars == <<appStatus, selectedMachine, availableFeatures, inFlight,
               nRequests, failed>>

\* the state behind fetchInitialData, uploadFile, trainModel and the polling
loadVars == <<isConnected, isLoading, isUploading, machines, selectedFile,
              ops, nOps, nTicks, nPolls>>

vars == <<chartData, selectedParameter, thresholds, nEdits, lastUpdate,
          processedChartData, yDomain, visibleMinMaxPoints,
          currentThreshold, referenceLines,
          appStatus, selectedMachine, availableFeatures, inFlight,
          nRequests, failed,
          isConnected, isLoading, isUploading, machines, selectedFile,
          ops, nOps, nTicks, nPolls>>

-----------------------------------------------------------------------------
(* Bounds of the model *)

MaxLen == 3
MaxNum == 2
MaxEdits == 2
MaxRequests == 3
MaxOps == 4
MaxTicks == 1

-----------------------------------------------------------------------------
(* JavaScript values *)

Num(n) == [type |-> "number", num |-> n, inf |-> 0]
Undefined == [type |-> "undefined", num |-> 0, inf |-> 0]
Null == [type |-> "null", num |-> 0, inf |-> 0]
Str == [type |-> "string", num |-> 0, inf |-> 0]
Infinity == [type |-> "number", num |-> 0, inf |-> 1]
NegInfinity == [type |-> "number", num |-> 0, inf |-> -1]

\* a < b on numbers
JsLess(a, b) ==
    \/ a.inf < b.inf
    \/ a.inf = 0 /\ b.inf = 0 /\ a.num < b.num

\* a filter that lets null through (as !isNaN(v) would)
IsNumberLoose(v) == v.type \in {"number", "null"}

\* typeof v === 'number'
IsNumber(v) == v.type = "number"

\* the five monitored parameters
Parameters ==
    {"metal_temperature", "solidification_time", "tilting_angle",
     "tilting_speed", "top_die_temperature"}


-----------------------------------------------------------------------------
(* The raw series: a reading is one element of the chart_data response,    *)
(* an object with a time label, the is_violation flag and the values it    *)
(* carries, by key.                                                        *)

\* point[selectedParameter] || 0
LookupOrZero(point, key) ==
    IF key \in DOMAIN point.vals /\ IsNumber(point.vals[key])
    THEN point.vals[key]
    ELSE Num(0)

\* point[selectedParameter]: the value under the key, undefined when missing
Lookup(point, key) ==
    IF key \in DOMAIN point.vals THEN point.vals[key] ELSE Undefined

\* a flag that is never raised
OrFalseNever(flag) == FALSE

\* point.is_violation || false
OrFalse(flag) == flag \/ FALSE

\* chartData.map(point => ({time, actual, is_violation})) keeping only the
\* points that carry a number
RECURSIVE ProjectDropping(_, _)
ProjectDropping(cd, sp) ==
    IF Len(cd) = 0
    THEN <<>>
    ELSE LET rest == ProjectDropping(Tail(cd), sp)
             head == [time |-> Head(cd).time,
                      actual |-> Lookup(Head(cd), sp),
                      is_violation |-> OrFalse(Head(cd).is_violation)]
         IN IF IsNumber(head.actual) THEN <<head>> \o rest ELSE rest

\* processedChartData
Project(cd, sp) ==
    IF Len(cd) = 0
    THEN <<>>
    ELSE [i \in 1..Len(cd) |->
            [time |-> cd[i].time,
             actual |-> Lookup(cd[i], sp),
             is_violation |-> OrFalse(cd[i].is_violation)]]

-----------------------------------------------------------------------------
(* PerformanceChart: the Y axis domain *)

\* data.map(p => p.actual).filter(v => typeof v === 'number')
RECURSIVE NumericValues(_)
NumericValues(data) ==
    IF Len(data) = 0
    THEN <<>>
    ELSE IF IsNumber(Head(data).actual)
         THEN <<Head(data).actual>> \o NumericValues(Tail(data))
         ELSE NumericValues(Tail(data))

\* Math.min(...values): Infinity for no argument
RECURSIVE MathMin(_)
MathMin(values) ==
    IF Len(values) = 0
    THEN Infinity
    ELSE LET m == MathMin(Tail(values))
         IN IF JsLess(Head(values), m) THEN Head(values) ELSE m

\* Math.max(...values): -Infinity for no argument
RECURSIVE MathMax(_)
MathMax(values) ==
    IF Len(values) = 0
    THEN NegInfinity
    ELSE LET m == MathMax(Tail(values))
         IN IF JsLess(m, Head(values)) THEN Head(values) ELSE m

\* Math.floor(x / 10) and Math.ceil(x / 10) of a number x of tenths
MathFloorTenths(x) == x \div 10

MathCeilTenths(x) == 0 - ((0 - x) \div 10)

\* the padding without the flat-series case
PaddingTenthsNoFlat(range) == range

\* range > 0 ? range * 0.1 : 20, in tenths
PaddingTenths(range) == IF range > 0 THEN range ELSE 20 * 10

\* return [0, 100]: the domain of a series without a number
FallbackDomain == <<0, 100>>

\* the domain with the two ends exchanged
YDomainSwapped(data) ==
    LET allValues == NumericValues(data)
    IN IF Len(allValues) = 0
       THEN FallbackDomain
       ELSE LET minValue == MathMin(allValues).num
                maxValue == MathMax(allValues).num
                range == maxValue - minValue
                padding == PaddingTenths(range)
            IN <<MathFloorTenths(10 * maxValue - padding),
                 MathCeilTenths(10 * minValue + padding)>>

\* yDomain
YDomain(data) ==
    LET allValues == NumericValues(data)
    IN IF Len(allValues) = 0
       THEN FallbackDomain
       ELSE LET minValue == MathMin(allValues).num
                maxValue == MathMax(allValues).num
                range == maxValue - minValue
                padding == PaddingTenths(range)
            IN <<MathFloorTenths(10 * minValue - padding),
                 MathCeilTenths(10 * maxValue + padding)>>


-----------------------------------------------------------------------------
(* PerformanceChart: the min/max points.  A point of data is referred to   *)
(* by its position in data (find returns the element itself, so two finds  *)
(* that stop at the same position return the same object); position 0      *)
(* stands for undefined, the result of a find that matches nothing.        *)

\* useMemo(() => Math.min(...data.map(p => p.actual).filter(...)))
MinValue(data) == MathMin(NumericValues(data))

\* maxValue computed with Math.min
MaxValueAsMin(data) == MathMin(NumericValues(data))

\* useMemo(() => Math.max(...data.map(p => p.actual).filter(...)))
MaxValue(data) == MathMax(NumericValues(data))

\* the last element whose value is v
FindLast(data, v) ==
    LET hits == {i \in 1..Len(data) : data[i].actual = v}
    IN IF hits = {} THEN 0 ELSE CHOOSE i \in hits : \A j \in hits : j <= i

\* data.find(p => p.actual === v): the first element whose value is v
RECURSIVE FindFrom(_, _, _)
FindFrom(data, v, i) ==
    IF i > Len(data)
    THEN 0
    ELSE IF data[i].actual = v THEN i ELSE FindFrom(data, v, i + 1)

Find(data, v) == FindFrom(data, v, 1)

\* no filter at all
KeepAll(points) == points

\* points.filter(Boolean): an object is truthy, undefined is not
FilterBoolean(points) == SelectSeq(points, LAMBDA r : r # 0)

MinPoint(data) == Find(data, MinValue(data))

MaxPoint(data) == Find(data, MaxValue(data))

\* [minPoint, maxPoint].filter(Boolean)
VisibleMinMaxPoints(data) == FilterBoolean(<<MinPoint(data), MaxPoint(data)>>)

-----------------------------------------------------------------------------
(* The threshold state slots *)

\* useState(730), useState(710), ...
DefaultThresholds ==
    [metalTempThreshold |-> 730,
     metalTempLowerThreshold |-> 710,
     solidificationTimeThreshold |-> 180,
     solidificationTimeLowerThreshold |-> 180,
     tiltingAngleThreshold |-> 90,
     tiltingAngleLowerThreshold |-> 90,
     tiltingSpeedThreshold |-> 8,
     tiltingSpeedLowerThreshold |-> 6,
     topDieTempThreshold |-> 380,
     topDieTempLowerThreshold |-> 300]

\* a switch statement without the case of tilting_speed
UpperSlotWithoutSpeed(parameter) ==
    CASE parameter = "metal_temperature" -> "metalTempThreshold"
      [] parameter = "solidification_time" -> "solidificationTimeThreshold"
      [] parameter = "tilting_angle" -> "tiltingAngleThreshold"
      [] parameter = "top_die_temperature" -> "topDieTempThreshold"
      [] OTHER -> ""

\* the slot a switch statement on the parameter reaches; "" in the default case
UpperSlot(parameter) ==
    CASE parameter = "metal_temperature" -> "metalTempThreshold"
      [] parameter = "solidification_time" -> "solidificationTimeThreshold"
      [] parameter = "tilting_angle" -> "tiltingAngleThreshold"
      [] parameter = "tilting_speed" -> "tiltingSpeedThreshold"
      [] parameter = "top_die_temperature" -> "topDieTempThreshold"
      [] OTHER -> ""

\* a lower bound kept in the slot of the upper bound
LowerSlotShared(parameter) == UpperSlot(parameter)

LowerSlot(parameter) ==
    CASE parameter = "metal_temperature" -> "metalTempLowerThreshold"
      [] parameter = "solidification_time" -> "solidificationTimeLowerThreshold"
      [] parameter = "tilting_angle" -> "tiltingAngleLowerThreshold"
      [] parameter = "tilting_speed" -> "tiltingSpeedLowerThreshold"
      [] parameter = "top_die_temperature" -> "topDieTempLowerThreshold"
      [] OTHER -> ""

\* a getCurrentThreshold whose default case gives the bounds of metal_temperature
GetCurrentThresholdOrMetal(th, parameter) ==
    IF UpperSlot(parameter) = ""
    THEN [upper |-> Num(th.metalTempThreshold),
          lower |-> Num(th.metalTempLowerThreshold)]
    ELSE [upper |-> Num(th[UpperSlot(parameter)]),
          lower |-> Num(th[LowerSlot(parameter)])]

\* getCurrentThreshold, for a given selected parameter
GetCurrentThreshold(th, parameter) ==
    IF UpperSlot(parameter) = ""
    THEN [upper |-> Undefined, lower |-> Undefined]
    ELSE [upper |-> Num(th[UpperSlot(parameter)]),
          lower |-> Num(th[LowerSlot(parameter)])]

\* the truth value of a bound in `thresholds.upper && ...`: undefined and 0
\* are falsy, every other number is truthy
Truthy(v) == v.type = "number" /\ (v.inf # 0 \/ v.num # 0)

\* no ReferenceLine element
NoLine == [type |-> "none", num |-> 0, inf |-> 0]

\* {thresholds.upper && <ReferenceLine y={thresholds.upper} ...>}: the y of
\* the line drawn for a bound
ReferenceLine(bound) == IF Truthy(bound) THEN bound ELSE NoLine

\* the upper and the lower reference line of the chart
ReferenceLines(th) ==
    [upper |-> ReferenceLine(th.upper), lower |-> ReferenceLine(th.lower)]

-----------------------------------------------------------------------------
(* parseInt(value, 10) on a string, given as the sequence of its           *)
(* characters.  The result is [nan |-> TRUE, n |-> 0] for NaN and          *)
(* [nan |-> FALSE, n |-> the integer] otherwise.                           *)

Digits == {"0", "1", "2", "3", "4", "5", "6", "7", "8", "9"}

DigitValue(c) ==
    CASE c = "0" -> 0 [] c = "1" -> 1 [] c = "2" -> 2 [] c = "3" -> 3
      [] c = "4" -> 4 [] c = "5" -> 5 [] c = "6" -> 6 [] c = "7" -> 7
      [] c = "8" -> 8 [] c = "9" -> 9

\* the string without its leading white space
RECURSIVE TrimStart(_)
TrimStart(s) ==
    IF Len(s) > 0 /\ Head(s) = " " THEN TrimStart(Tail(s)) ELSE s

\* the longest prefix of s made of digits
RECURSIVE DigitPrefix(_)
DigitPrefix(s) ==
    IF Len(s) > 0 /\ Head(s) \in Digits
    THEN <<Head(s)>> \o DigitPrefix(Tail(s))
    ELSE <<>>

\* the number a non-empty sequence of digits denotes
RECURSIVE DigitsToInt(_)
DigitsToInt(ds) ==
    IF Len(ds) = 0
    THEN 0
    ELSE 10 * DigitsToInt(SubSeq(ds, 1, Len(ds) - 1)) + DigitValue(ds[Len(ds)])

NaN == [nan |-> TRUE, n |-> 0]

\* parseInt(value, 10) || 0
ParseIntOrZero(value) ==
    LET t == TrimStart(value)
        signed == Len(t) > 0 /\ Head(t) \in {"+", "-"}
        body == IF signed THEN Tail(t) ELSE t
        ds == DigitPrefix(body)
    IN IF Len(ds) = 0
       THEN [nan |-> FALSE, n |-> 0]
       ELSE IF signed /\ Head(t) = "-"
            THEN [nan |-> FALSE, n |-> 0 - DigitsToInt(ds)]
            ELSE [nan |-> FALSE, n |-> DigitsToInt(ds)]

\* parseInt(value, 10)
ParseInt(value) ==
    LET t == TrimStart(value)
        signed == Len(t) > 0 /\ Head(t) \in {"+", "-"}
        body == IF signed THEN Tail(t) ELSE t
        ds == DigitPrefix(body)
    IN IF Len(ds) = 0
       THEN NaN
       ELSE IF signed /\ Head(t) = "-"
            THEN [nan |-> FALSE, n |-> 0 - DigitsToInt(ds)]
            ELSE [nan |-> FALSE, n |-> DigitsToInt(ds)]

\* isNaN(numValue)
IsNaN(numValue) == numValue.nan


-----------------------------------------------------------------------------
(* Inputs *)

\* the values a reading may carry: a few numbers, null, a string, nothing
NumValues == {7 * k : k \in (0 - 1)..MaxNum}

ReadingValues == {Num(n) : n \in NumValues} \cup {Undefined, Null, Str}

\* the keys of a reading: the queried parameter with its value, when it has one
Vals(key, v) ==
    IF v = Undefined THEN [p \in {} |-> Undefined] ELSE [p \in {key} |-> v]

Reading(t, key, v, flag) ==
    [time |-> t, is_violation |-> flag, vals |-> Vals(key, v)]

\* the parameters the series of InitChart are fetched for
BatchParameters == {"metal_temperature", "tilting_speed"}

\* the series of n readings for one parameter: one per choice of the values
\* and of the reading flagged as a violation (none for 0)
SeriesOfLen(n, key) ==
    {[i \in 1..n |-> Reading(i - 1, key, body[i], i = violator)] :
        body \in [1..n -> ReadingValues], violator \in 0..n}

\* the three series of the end-to-end scenarios
ScenarioA ==
    <<Reading(0, "metal_temperature", Num(705), TRUE),
      Reading(1, "metal_temperature", Num(715), FALSE),
      Reading(2, "metal_temperature", Num(725), FALSE)>>

ScenarioB ==
    <<Reading(0, "metal_temperature", Undefined, FALSE),
      Reading(1, "metal_temperature", Undefined, FALSE)>>

ScenarioC ==
    <<Reading(0, "metal_temperature", Num(50), FALSE),
      Reading(1, "metal_temperature", Num(50), FALSE),
      Reading(2, "metal_temperature", Num(50), FALSE)>>

SampleBatches == {ScenarioA, ScenarioB, ScenarioC}

\* the texts typed into a threshold input, as sequences of characters
InputValues ==
    {<<>>,
     <<"a", "b", "c">>,
     <<"-">>,
     <<"0">>,
     <<"1", "2", "a", "b", "c">>,
     <<"-", "5">>,
     <<" ", "3", ".", "7">>}

ThresholdTypes == {"upper", "lower"}

-----------------------------------------------------------------------------
(* Rendering: the derived values are recomputed from the state on every    *)
(* render, which follows every state change.                               *)

\* a chart that keeps the domain of the series as first projected, for
\* metal_temperature
RenderedForFirstParameter(cd, sp, pcd, yd, vis) ==
    /\ pcd = Project(cd, sp)
    /\ yd = YDomain(Project(cd, "metal_temperature"))
    /\ vis = VisibleMinMaxPoints(pcd)

Rendered(cd, sp, pcd, yd, vis) ==
    /\ pcd = Project(cd, sp)
    /\ yd = YDomain(pcd)
    /\ vis = VisibleMinMaxPoints(pcd)

\* thresholds={getCurrentThreshold()} and the reference lines drawn from it
RenderedThresholds(th, sp, ct, lines) ==
    /\ ct = GetCurrentThreshold(th, sp)
    /\ lines = ReferenceLines(ct)

-----------------------------------------------------------------------------
(* The chart_data requests.  A request is [id, machine, parameter]: the    *)
(* machine and the parameter are those of the closure of fetchChartData    *)
(* that sent it.  A response is [ok, data, hasFeatures, features].         *)

\* the five parameters as a feature_columns list
AllFeatures ==
    <<"metal_temperature", "solidification_time", "tilting_angle",
      "tilting_speed", "top_die_temperature">>

\* the series the server returns for a parameter
ServerBatch(parameter) ==
    <<Reading(0, parameter, Num(705), TRUE),
      Reading(1, parameter, Num(715), FALSE)>>

\* the feature_columns a response may carry: two of the five parameters, a
\* column that is none of the five, or no column
FeatureColumns ==
    {<<"metal_temperature", "tilting_speed">>,
     <<"idle_time", "metal_temperature">>,
     <<>>}

\* the responses to a request
Responses(req) ==
    {[ok |-> FALSE, data |-> <<>>, hasFeatures |-> FALSE, features |-> <<>>],
     [ok |-> TRUE, data |-> ServerBatch(req.parameter),
      hasFeatures |-> FALSE, features |-> <<>>]}
    \cup {[ok |-> TRUE, data |-> ServerBatch(req.parameter),
           hasFeatures |-> TRUE, features |-> fc] : fc \in FeatureColumns}

\* list.includes(x)
Includes(list, x) == \E i \in 1..Len(list) : list[i] = x

\* the series stored by a response that adds to the stored one
ChartDataAppended(cd, resp) == IF resp.ok THEN cd \o resp.data ELSE <<>>

\* the series stored by a response when a failure leaves the stored one
ChartDataKeptOnFailure(cd, resp) == IF resp.ok THEN resp.data ELSE cd

\* setChartData(data.data) on success, setChartData([]) otherwise
ChartDataAfter(cd, resp) == IF resp.ok THEN resp.data ELSE <<>>

\* the selected parameter after a response: data.feature_columns[0] || ''
\* when the columns do not include the parameter of the request
ParameterAfter(sp, req, resp) ==
    IF resp.ok /\ resp.hasFeatures /\ ~Includes(resp.features, req.parameter)
    THEN IF Len(resp.features) > 0 THEN resp.features[1] ELSE ""
    ELSE sp

\* useEffect(fetchChartData): whether a render that follows a change of the
\* selection from sp to newSp sends a request
SendsRequest(status, machine, sp, newSp) ==
    /\ newSp # sp
    /\ status = "ready" /\ machine # ""
    /\ newSp # ""

\* the requests in flight after that render
InFlightAfter(reqs, n, status, machine, sp, newSp) ==
    IF SendsRequest(status, machine, sp, newSp)
    THEN reqs \cup {[id |-> n + 1, machine |-> machine, parameter |-> newSp]}
    ELSE reqs

\* the state of the load after the initial load has ended with the list ms
\* of machines: connected, nothing in progress
Loaded(ms) ==
    /\ isConnected = TRUE
    /\ isLoading = FALSE
    /\ isUploading = FALSE
    /\ machines = ms
    /\ selectedFile = FALSE
    /\ ops = {}
    /\ nOps = 1
    /\ nTicks = 0
    /\ nPolls = 0

-----------------------------------------------------------------------------
(* Handlers *)

\* a parameter switch that resets the thresholds
SelectParameterResetting(p) ==
    /\ appStatus = "ready"
    /\ p \in Parameters /\ Includes(availableFeatures, p)
    /\ SendsRequest(appStatus, selectedMachine, selectedParameter, p)
          => nRequests < MaxRequests
    /\ selectedParameter' = p
    /\ inFlight' = InFlightAfter(inFlight, nRequests, appStatus,
                                 selectedMachine, selectedParameter, p)
    /\ nRequests' = IF SendsRequest(appStatus, selectedMachine,
                                    selectedParameter, p)
                    THEN nRequests + 1
                    ELSE nRequests
    /\ thresholds' = DefaultThresholds
    /\ UNCHANGED <<chartData, nEdits, lastUpdate>>
    /\ UNCHANGED <<appStatus, selectedMachine, availableFeatures, failed>>
    /\ UNCHANGED loadVars
    /\ Rendered(chartData', selectedParameter',
                processedChartData', yDomain', visibleMinMaxPoints')
    /\ RenderedThresholds(thresholds', selectedParameter',
                          currentThreshold', referenceLines')

\* <select onChange={(e) => setSelectedParameter(e.target.value)}>, the
\* options being the parameters among availableFeatures, and the render and
\* the effect that follow
SelectParameter(p) ==
    /\ appStatus = "ready"
    /\ p \in Parameters /\ Includes(availableFeatures, p)
    /\ SendsRequest(appStatus, selectedMachine, selectedParameter, p)
          => nRequests < MaxRequests
    /\ selectedParameter' = p
    /\ inFlight' = InFlightAfter(inFlight, nRequests, appStatus,
                                 selectedMachine, selectedParameter, p)
    /\ nRequests' = IF SendsRequest(appStatus, selectedMachine,
                                    selectedParameter, p)
                    THEN nRequests + 1
                    ELSE nRequests
    /\ UNCHANGED <<chartData, thresholds, nEdits, lastUpdate>>
    /\ UNCHANGED <<appStatus, selectedMachine, availableFeatures, failed>>
    /\ UNCHANGED loadVars
    /\ Rendered(chartData', selectedParameter',
                processedChartData', yDomain', visibleMinMaxPoints')
    /\ RenderedThresholds(thresholds', selectedParameter',
                          currentThreshold', referenceLines')

\* fetchChartData, a successful response without feature_columns:
\* setChartData(data.data)
SetChartData(data) ==
    /\ chartData' = data
    /\ UNCHANGED <<selectedParameter, thresholds, nEdits, lastUpdate>>
    /\ UNCHANGED fetchVars
    /\ UNCHANGED loadVars
    /\ Rendered(chartData', selectedParameter',
                processedChartData', yDomain', visibleMinMaxPoints')
    /\ RenderedThresholds(thresholds', selectedParameter',
                          currentThreshold', referenceLines')

\* fetchChartData, a failed request or success false: setChartData([])
ClearChartData ==
    /\ chartData' = <<>>
    /\ UNCHANGED <<selectedParameter, thresholds, nEdits, lastUpdate>>
    /\ UNCHANGED fetchVars
    /\ UNCHANGED loadVars
    /\ Rendered(chartData', selectedParameter',
                processedChartData', yDomain', visibleMinMaxPoints')
    /\ RenderedThresholds(thresholds', selectedParameter',
                          currentThreshold', referenceLines')

\* fetchChartData from the arrival of the response to request req on, and
\* the render and the effect that follow
ReceiveChartData(req, resp) ==
    LET newSp == ParameterAfter(selectedParameter, req, resp)
    IN /\ req \in inFlight
       /\ SendsRequest(appStatus, selectedMachine, selectedParameter, newSp)
             => nRequests < MaxRequests
       /\ chartData' = ChartDataAfter(chartData, resp)
       /\ availableFeatures' = IF resp.ok /\ resp.hasFeatures
                               THEN resp.features
                               ELSE availableFeatures
       /\ selectedParameter' = newSp
       /\ inFlight' = InFlightAfter(inFlight \ {req}, nRequests, appStatus,
                                    selectedMachine, selectedParameter, newSp)
       /\ nRequests' = IF SendsRequest(appStatus, selectedMachine,
                                       selectedParameter, newSp)
                       THEN nRequests + 1
                       ELSE nRequests
       /\ failed' = (failed \/ ~resp.ok)
       /\ UNCHANGED <<thresholds, nEdits, lastUpdate>>
       /\ UNCHANGED <<appStatus, selectedMachine>>
       /\ UNCHANGED loadVars
       /\ Rendered(chartData', selectedParameter',
                   processedChartData', yDomain', visibleMinMaxPoints')
       /\ RenderedThresholds(thresholds', selectedParameter',
                             currentThreshold', referenceLines')

\* an updateThreshold that ignores a number that would leave the lower
\* bound above the upper bound
updateThresholdOrdered(type, value) ==
    LET numValue == ParseInt(value)
        slot == IF type = "upper"
                THEN UpperSlot(selectedParameter)
                ELSE LowerSlot(selectedParameter)
        stored == IF slot = ""
                  THEN thresholds
                  ELSE [thresholds EXCEPT ![slot] = numValue.n]
        crossed == /\ slot # ""
                   /\ stored[LowerSlot(selectedParameter)]
                         > stored[UpperSlot(selectedParameter)]
    IN /\ appStatus = "ready"
       /\ IsNaN(numValue) \/ nEdits < MaxEdits
       /\ IF IsNaN(numValue)
          THEN /\ lastUpdate' = "ignored"
               /\ UNCHANGED <<thresholds, nEdits>>
          ELSE /\ lastUpdate' = "stored"
               /\ nEdits' = nEdits + 1
               /\ thresholds' = IF crossed THEN thresholds ELSE stored
       /\ UNCHANGED <<chartData, selectedParameter>>
       /\ UNCHANGED fetchVars
       /\ UNCHANGED loadVars
       /\ Rendered(chartData', selectedParameter',
                   processedChartData', yDomain', visibleMinMaxPoints')
       /\ RenderedThresholds(thresholds', selectedParameter',
                             currentThreshold', referenceLines')

\* an updateThreshold that flags anew every stored reading against the
\* number it stores
updateThresholdReflagging(type, value) ==
    LET numValue == ParseInt(value)
        slot == IF type = "upper"
                THEN UpperSlot(selectedParameter)
                ELSE LowerSlot(selectedParameter)
        Outside(point) ==
            LET v == Lookup(point, selectedParameter)
            IN IsNumber(v) /\ IF type = "upper"
                              THEN v.num > numValue.n
                              ELSE v.num < numValue.n
    IN /\ appStatus = "ready"
       /\ IsNaN(numValue) \/ nEdits < MaxEdits
       /\ IF IsNaN(numValue)
          THEN /\ lastUpdate' = "ignored"
               /\ UNCHANGED <<thresholds, nEdits, chartData>>
          ELSE /\ lastUpdate' = "stored"
               /\ nEdits' = nEdits + 1
               /\ thresholds' = IF slot = ""
                                THEN thresholds
                                ELSE [thresholds EXCEPT ![slot] = numValue.n]
               /\ chartData' = [i \in 1..Len(chartData) |->
                                  [chartData[i] EXCEPT
                                      !.is_violation = Outside(chartData[i])]]
       /\ UNCHANGED selectedParameter
       /\ UNCHANGED fetchVars
       /\ UNCHANGED loadVars
       /\ Rendered(chartData', selectedParameter',
                   processedChartData', yDomain', visibleMinMaxPoints')
       /\ RenderedThresholds(thresholds', selectedParameter',
                             currentThreshold', referenceLines')

\* updateThreshold(type, value), from the inputs of the dashboard view
updateThreshold(type, value) ==
    LET numValue == ParseInt(value)
        slot == IF type = "upper"
                THEN UpperSlot(selectedParameter)
                ELSE LowerSlot(selectedParameter)
    IN /\ appStatus = "ready"
       /\ IsNaN(numValue) \/ nEdits < MaxEdits
       /\ IF IsNaN(numValue)
          THEN /\ lastUpdate' = "ignored"
               /\ UNCHANGED <<thresholds, nEdits>>
          ELSE /\ lastUpdate' = "stored"
               /\ nEdits' = nEdits + 1
               /\ thresholds' = IF slot = ""
                                THEN thresholds
                                ELSE [thresholds EXCEPT ![slot] = numValue.n]
       /\ UNCHANGED <<chartData, selectedParameter>>
       /\ UNCHANGED fetchVars
       /\ UNCHANGED loadVars
       /\ Rendered(chartData', selectedParameter',
                   processedChartData', yDomain', visibleMinMaxPoints')
       /\ RenderedThresholds(thresholds', selectedParameter',
                             currentThreshold', referenceLines')

-----------------------------------------------------------------------------
(* SpecChart: the chart pipeline on every series of at most MaxLen         *)
(* readings.  The dashboard is ready and no machine is selected, so that   *)
(* a parameter switch sends no request.                                    *)

InitChart ==
    /\ \E n \in 0..MaxLen, key \in BatchParameters :
          /\ chartData \in SeriesOfLen(n, key)
          /\ selectedParameter = key
    /\ thresholds = DefaultThresholds
    /\ nEdits = 0
    /\ lastUpdate = "none"
    /\ appStatus = "ready"
    /\ selectedMachine = ""
    /\ availableFeatures = AllFeatures
    /\ inFlight = {}
    /\ nRequests = 0
    /\ failed = FALSE
    /\ Loaded(<<>>)
    /\ Rendered(chartData, selectedParameter,
                processedChartData, yDomain, visibleMinMaxPoints)
    /\ RenderedThresholds(thresholds, selectedParameter,
                          currentThreshold, referenceLines)

NextChart ==
    \/ \E p \in Parameters : SelectParameter(p)
    \/ \E data \in SampleBatches : SetChartData(data)
    \/ ClearChartData

SpecChart == InitChart /\ [][NextChart]_vars

-----------------------------------------------------------------------------
(* SpecThreshold: the threshold slots under parameter switches and edits,  *)
(* from the default thresholds.  The dashboard is ready and no machine is  *)
(* selected.                                                               *)

InitThreshold ==
    /\ chartData = <<>>
    /\ selectedParameter = "metal_temperature"
    /\ thresholds = DefaultThresholds
    /\ nEdits = 0
    /\ lastUpdate = "none"
    /\ appStatus = "ready"
    /\ selectedMachine = ""
    /\ availableFeatures = AllFeatures
    /\ inFlight = {}
    /\ nRequests = 0
    /\ failed = FALSE
    /\ Loaded(<<>>)
    /\ Rendered(chartData, selectedParameter,
                processedChartData, yDomain, visibleMinMaxPoints)
    /\ RenderedThresholds(thresholds, selectedParameter,
                          currentThreshold, referenceLines)

NextThreshold ==
    \/ \E p \in Parameters : SelectParameter(p)
    \/ \E type \in ThresholdTypes, value \in InputValues :
          updateThreshold(type, value)

SpecThreshold == InitThreshold /\ [][NextThreshold]_vars

-----------------------------------------------------------------------------
(* Spec: the ready dashboard with a machine selected.  The first           *)
(* chart_data request, sent by the effect that follows the initial load,   *)
(* is in flight.                                                           *)

\* the texts typed into a threshold input while requests are under way
DashboardInputValues == {<<"a", "b", "c">>, <<"0">>, <<"1", "2", "a", "b", "c">>}

Init ==
    /\ chartData = <<>>
    /\ selectedParameter = "metal_temperature"
    /\ thresholds = DefaultThresholds
    /\ nEdits = 0
    /\ lastUpdate = "none"
    /\ appStatus = "ready"
    /\ selectedMachine = "M1"
    /\ availableFeatures = <<>>
    /\ inFlight = {[id |-> 1, machine |-> "M1",
                    parameter |-> "metal_temperature"]}
    /\ nRequests = 1
    /\ failed = FALSE
    /\ Loaded(<<"M1">>)
    /\ Rendered(chartData, selectedParameter,
                processedChartData, yDomain, visibleMinMaxPoints)
    /\ RenderedThresholds(thresholds, selectedParameter,
                          currentThreshold, referenceLines)

Next ==
    \/ \E p \in Parameters : SelectParameter(p)
    \/ \E req \in inFlight : \E resp \in Responses(req) :
          ReceiveChartData(req, resp)
    \/ \E type \in ThresholdTypes, value \in DashboardInputValues :
          updateThreshold(type, value)

Spec == Init /\ [][Next]_vars

-----------------------------------------------------------------------------
(* The operations of the dashboard: fetchInitialData, uploadFile and       *)
(* trainModel.  An operation in progress is [id, caller, pc, machine]:     *)
(* caller is "mount", "upload" or "train"; pc is the request it awaits,    *)
(* "upload" or "train" for the POST of the caller, then "health",          *)
(* "machines" and "alerts" for the fetchInitialData the caller awaits;     *)
(* machine is the selectedMachine of the closure that runs it.             *)

\* the lists of machines a /machines response may carry
MachineLists == {<<>>, <<"M1">>, <<"M2", "M1">>}

\* the outcomes of the /machines request: a list, NO_DATA_FILE, or a failure
MachinesOutcomes ==
    {[kind |-> "ok", machines |-> ms] : ms \in MachineLists}
    \cup {[kind |-> "no_data", machines |-> <<>>],
          [kind |-> "error", machines |-> <<>>]}

\* isAfterUpload: true in the calls made by uploadFile and trainModel
IsAfterUpload(op) == op.caller # "mount"

\* a selection that is kept whenever it is in the new list
SelectedMachineKeptIfValid(current, op, newMachines) ==
    IF Len(newMachines) > 0
    THEN IF ~(op.machine # "" /\ Includes(newMachines, op.machine))
         THEN newMachines[1]
         ELSE current
    ELSE ""

\* the selected machine after a successful /machines response
SelectedMachineAfter(current, op, newMachines) ==
    IF Len(newMachines) > 0
    THEN IF IsAfterUpload(op)
            \/ ~(op.machine # "" /\ Includes(newMachines, op.machine))
         THEN newMachines[1]
         ELSE current
    ELSE ""

\* an effect that does not look at appStatus
EffectSendsInAnyStatus(status, machine, sp, newStatus, newMachine, newSp) ==
    /\ <<newStatus, newMachine, newSp>> # <<status, machine, sp>>
    /\ newMachine # ""
    /\ newSp # ""

\* useEffect(fetchChartData) after a render in which appStatus, the selected
\* machine or the selected parameter has changed: whether a request is sent
EffectSends(status, machine, sp, newStatus, newMachine, newSp) ==
    /\ <<newStatus, newMachine, newSp>> # <<status, machine, sp>>
    /\ newStatus = "ready" /\ newMachine # ""
    /\ newSp # ""

\* the effect after a step of a load that leaves appStatus and the selected
\* machine as given
RunEffect(newStatus, newMachine) ==
    LET sends == EffectSends(appStatus, selectedMachine, selectedParameter,
                             newStatus, newMachine, selectedParameter)
    IN /\ sends => nRequests < MaxRequests
       /\ inFlight' = IF sends
                      THEN inFlight \cup {[id |-> nRequests + 1,
                                           machine |-> newMachine,
                                           parameter |-> selectedParameter]}
                      ELSE inFlight
       /\ nRequests' = IF sends THEN nRequests + 1 ELSE nRequests

\* a load that ends and leaves isLoading as it is
EndOfLoadHolding(op) ==
    /\ ops' = ops \ {op}
    /\ UNCHANGED isLoading
    /\ isUploading' = IF op.caller = "upload" THEN FALSE ELSE isUploading

\* the finally of fetchInitialData, then the finally of the caller that
\* awaited it
EndOfLoad(op) ==
    /\ ops' = ops \ {op}
    /\ isLoading' = FALSE
    /\ isUploading' = IF op.caller = "upload" THEN FALSE ELSE isUploading

\* what no step of an operation changes
OperationFrame ==
    /\ UNCHANGED <<chartData, selectedParameter, thresholds, nEdits, lastUpdate>>
    /\ UNCHANGED <<availableFeatures, failed>>
    /\ UNCHANGED <<nTicks, nPolls>>
    /\ Rendered(chartData', selectedParameter',
                processedChartData', yDomain', visibleMinMaxPoints')
    /\ RenderedThresholds(thresholds', selectedParameter',
                          currentThreshold', referenceLines')

\* the effect of the first render: fetchInitialData(false) up to its first
\* await
Mount ==
    /\ nOps = 0
    /\ isLoading' = TRUE
    /\ ops' = {[id |-> 1, caller |-> "mount", pc |-> "health",
                machine |-> selectedMachine]}
    /\ nOps' = 1
    /\ UNCHANGED <<appStatus, selectedMachine, inFlight, nRequests>>
    /\ UNCHANGED <<isConnected, isUploading, machines, selectedFile>>
    /\ OperationFrame

\* handleFileSelect, from the upload section
handleFileSelect ==
    /\ appStatus # "initializing"
    /\ selectedFile' = TRUE
    /\ UNCHANGED <<appStatus, selectedMachine, inFlight, nRequests>>
    /\ UNCHANGED <<isConnected, isLoading, isUploading, machines, ops, nOps>>
    /\ OperationFrame

\* uploadFile, from the Upload button, up to its first await
uploadFile ==
    /\ appStatus # "initializing"
    /\ selectedFile /\ ~isUploading /\ isConnected
    /\ nOps < MaxOps
    /\ isUploading' = TRUE
    /\ ops' = ops \cup {[id |-> nOps + 1, caller |-> "upload", pc |-> "upload",
                         machine |-> selectedMachine]}
    /\ nOps' = nOps + 1
    /\ UNCHANGED <<appStatus, selectedMachine, inFlight, nRequests>>
    /\ UNCHANGED <<isConnected, isLoading, machines, selectedFile>>
    /\ OperationFrame

\* trainModel, from the Force Retrain button, up to its first await
trainModel ==
    /\ isConnected /\ ~isLoading
    /\ nOps < MaxOps
    /\ isLoading' = TRUE
    /\ ops' = ops \cup {[id |-> nOps + 1, caller |-> "train", pc |-> "train",
                         machine |-> selectedMachine]}
    /\ nOps' = nOps + 1
    /\ UNCHANGED <<appStatus, selectedMachine, inFlight, nRequests>>
    /\ UNCHANGED <<isConnected, isUploading, machines, selectedFile>>
    /\ OperationFrame

\* uploadFile and trainModel from the answer of their POST on: on success
\* fetchInitialData(true) up to its first await, otherwise the finally
ReceivePost(op, ok) ==
    /\ op \in ops
    /\ op.pc \in {"upload", "train"}
    /\ IF ok
       THEN /\ isLoading' = TRUE
            /\ ops' = (ops \ {op}) \cup {[op EXCEPT !.pc = "health"]}
            /\ UNCHANGED isUploading
       ELSE /\ ops' = ops \ {op}
            /\ isLoading' = IF op.caller = "train" THEN FALSE ELSE isLoading
            /\ isUploading' = IF op.caller = "upload" THEN FALSE ELSE isUploading
    /\ UNCHANGED <<appStatus, selectedMachine, inFlight, nRequests>>
    /\ UNCHANGED <<isConnected, machines, selectedFile, nOps>>
    /\ OperationFrame

\* fetchInitialData from the answer of /health on
ReceiveHealth(op, ok) ==
    /\ op \in ops
    /\ op.pc = "health"
    /\ IF ok
       THEN /\ isConnected' = TRUE
            /\ ops' = (ops \ {op}) \cup {[op EXCEPT !.pc = "machines"]}
            /\ UNCHANGED <<appStatus, isLoading, isUploading>>
       ELSE /\ appStatus' = "error"
            /\ isConnected' = FALSE
            /\ EndOfLoad(op)
    /\ UNCHANGED <<selectedMachine, machines, selectedFile, nOps>>
    /\ RunEffect(appStatus', selectedMachine')
    /\ OperationFrame

\* fetchInitialData from the answer of /machines on
ReceiveMachines(op, out) ==
    /\ op \in ops
    /\ op.pc = "machines"
    /\ CASE out.kind = "ok" ->
              /\ appStatus' = "ready"
              /\ machines' = out.machines
              /\ selectedMachine' =
                    SelectedMachineAfter(selectedMachine, op, out.machines)
              /\ ops' = (ops \ {op}) \cup {[op EXCEPT !.pc = "alerts"]}
              /\ UNCHANGED <<isConnected, isLoading, isUploading>>
         [] out.kind = "no_data" ->
              /\ appStatus' = "no_data"
              /\ EndOfLoad(op)
              /\ UNCHANGED <<isConnected, machines, selectedMachine>>
         [] OTHER ->
              /\ appStatus' = "error"
              /\ isConnected' = FALSE
              /\ EndOfLoad(op)
              /\ UNCHANGED <<machines, selectedMachine>>
    /\ RunEffect(appStatus', selectedMachine')
    /\ UNCHANGED <<selectedFile, nOps>>
    /\ OperationFrame

\* fetchInitialData from the end of fetchAlerts and fetchMetrics on
ReceiveAlertsAndMetrics(op) ==
    /\ op \in ops
    /\ op.pc = "alerts"
    /\ EndOfLoad(op)
    /\ UNCHANGED <<appStatus, selectedMachine, inFlight, nRequests>>
    /\ UNCHANGED <<isConnected, machines, selectedFile, nOps>>
    /\ OperationFrame

\* the isConnected of the closure of the interval callback: that of the
\* first render
IsConnectedAtMount == FALSE

\* a tick of the 30 s interval set at mount
Tick ==
    /\ nOps > 0
    /\ nTicks < MaxTicks
    /\ nTicks' = nTicks + 1
    /\ nPolls' = IF IsConnectedAtMount THEN nPolls + 1 ELSE nPolls
    /\ UNCHANGED <<chartData, selectedParameter, thresholds, nEdits, lastUpdate>>
    /\ UNCHANGED fetchVars
    /\ UNCHANGED <<isConnected, isLoading, isUploading, machines, selectedFile,
                   ops, nOps>>
    /\ UNCHANGED renderVars

-----------------------------------------------------------------------------
(* SpecLoad: the dashboard from its construction on, under initial load,   *)
(* uploads, retrains and polling ticks.  The chart_data requests are sent  *)
(* and stay in flight: what their answers do is the matter of Spec.        *)

InitLoad ==
    /\ chartData = <<>>
    /\ selectedParameter = "metal_temperature"
    /\ thresholds = DefaultThresholds
    /\ nEdits = 0
    /\ lastUpdate = "none"
    /\ appStatus = "initializing"
    /\ selectedMachine = ""
    /\ availableFeatures = <<>>
    /\ inFlight = {}
    /\ nRequests = 0
    /\ failed = FALSE
    /\ isConnected = FALSE
    /\ isLoading = FALSE
    /\ isUploading = FALSE
    /\ machines = <<>>
    /\ selectedFile = FALSE
    /\ ops = {}
    /\ nOps = 0
    /\ nTicks = 0
    /\ nPolls = 0
    /\ Rendered(chartData, selectedParameter,
                processedChartData, yDomain, visibleMinMaxPoints)
    /\ RenderedThresholds(thresholds, selectedParameter,
                          currentThreshold, referenceLines)

\* a step of an operation in progress
OperationStep ==
    \/ \E op \in ops, ok \in BOOLEAN : ReceivePost(op, ok)
    \/ \E op \in ops, ok \in BOOLEAN : ReceiveHealth(op, ok)
    \/ \E op \in ops, out \in MachinesOutcomes : ReceiveMachines(op, out)
    \/ \E op \in ops : ReceiveAlertsAndMetrics(op)

NextLoad ==
    \/ Mount
    \/ handleFileSelect
    \/ uploadFile
    \/ trainModel
    \/ OperationStep
    \/ Tick

SpecLoad == InitLoad /\ [][NextLoad]_vars

\* every request is eventually answered
SpecLoadFair ==
    /\ SpecLoad
    /\ WF_vars(OperationStep)

-----------------------------------------------------------------------------
(* What the properties below speak of, stated on the series itself *)

\* the positions of the points of data that carry a number
DefinedPositions(data) ==
    {i \in 1..Len(data) : data[i].actual.type = "number"}

\* the numbers the points of data carry
DefinedNumbers(data) == {data[i].actual.num : i \in DefinedPositions(data)}

SetMin(S) == CHOOSE m \in S : \A x \in S : m <= x

SetMax(S) == CHOOSE m \in S : \A x \in S : x <= m

\* the value a reading carries for a parameter; nothing when it has no such key
RawValue(reading, parameter) ==
    IF parameter \in DOMAIN reading.vals
    THEN reading.vals[parameter]
    ELSE [type |-> "undefined", num |-> 0, inf |-> 0]

\* the first position of data whose value is the number n
FirstPositionOf(data, n) ==
    CHOOSE i \in DefinedPositions(data) :
        /\ data[i].actual.num = n
        /\ \A j \in DefinedPositions(data) : data[j].actual.num = n => i <= j

\* the text starts, after white space and an optional sign, with a digit
HasLeadingInteger(text) ==
    \E k \in 1..Len(text) :
        /\ text[k] \in Digits
        /\ \A j \in 1..(k - 1) :
              \/ text[j] = " "
              \/ j = k - 1 /\ text[j] \in {"+", "-"}

-----------------------------------------------------------------------------
(* C1: whenever the series has at least one defined number, the domain     *)
(* reaches from at or below the least of them to at or above the greatest: *)
(* no point is clipped.                                                    *)
DomainCoversData ==
    \A x \in DefinedNumbers(processedChartData) :
        yDomain[1] <= x /\ x <= yDomain[2]

\* a series with a gap and two different numbers, strictly inside its domain
DomainCoversDataWitness ==
    /\ Cardinality(DefinedNumbers(processedChartData)) >= 2
    /\ \E i \in 1..Len(processedChartData) :
          processedChartData[i].actual.type = "undefined"
    /\ \A x \in DefinedNumbers(processedChartData) :
          yDomain[1] < x /\ x < yDomain[2]

(* C2: for a series with a defined number the domain is                    *)
(* [floor(min - padding), ceil(max + padding)], padding being a tenth of   *)
(* max - min when that is positive and 20 when it is zero; 705, 715, 725   *)
(* give [703, 727] and 50, 50, 50 give [30, 70].                           *)
DomainIsPaddedRange ==
    LET S == DefinedNumbers(processedChartData)
    IN /\ S # {} =>
            LET lo == SetMin(S)
                hi == SetMax(S)
                \* ten times the padding
                pad == IF hi - lo > 0 THEN hi - lo ELSE 200
            IN \* yDomain[1] is the greatest integer at most lo - pad / 10
               /\ 10 * yDomain[1] <= 10 * lo - pad
               /\ 10 * lo - pad < 10 * (yDomain[1] + 1)
               \* yDomain[2] is the least integer at least hi + pad / 10
               /\ 10 * hi + pad <= 10 * yDomain[2]
               /\ 10 * (yDomain[2] - 1) < 10 * hi + pad
       /\ (chartData = ScenarioA /\ selectedParameter = "metal_temperature")
             => yDomain = <<703, 727>>
       /\ (chartData = ScenarioC /\ selectedParameter = "metal_temperature")
             => yDomain = <<30, 70>>

\* a flat series is rendered, and so is one whose padding is not an integer
DomainIsPaddedRangeWitness ==
    LET S == DefinedNumbers(processedChartData)
    IN \/ /\ Cardinality(S) = 1
          /\ Len(processedChartData) >= 2
          /\ yDomain[2] - yDomain[1] = 40
       \/ /\ Cardinality(S) >= 2
          /\ (SetMax(S) - SetMin(S)) % 10 # 0
          /\ SetMin(S) < 0

(* C3: for an empty series, or one in which no point carries a number,     *)
(* the domain is exactly [0, 100].                                         *)
NoNumberFallbackDomain ==
    DefinedNumbers(processedChartData) = {} => yDomain = <<0, 100>>

\* a series of nulls, strings and gaps only is rendered
NoNumberFallbackDomainWitness ==
    /\ Len(processedChartData) >= 2
    /\ DefinedNumbers(processedChartData) = {}
    /\ \E i \in 1..Len(processedChartData) :
          processedChartData[i].actual.type = "null"
    /\ yDomain = <<0, 100>>

(* C4: for a flat series (its defined numbers all equal) the Min/Max layer *)
(* gets exactly one point, not the same point twice.                       *)
FlatSeriesOneExtremum ==
    Cardinality(DefinedNumbers(processedChartData)) = 1
        => Len(visibleMinMaxPoints) = 1

(* C5: for a series with a defined number, the Min/Max points hold a point *)
(* whose value is the least defined number and one whose value is the      *)
(* greatest; a point without a number is never among them.                 *)
ExtremaAreMinAndMax ==
    LET data == processedChartData
        S == DefinedNumbers(data)
        shown == {visibleMinMaxPoints[k] : k \in 1..Len(visibleMinMaxPoints)}
    IN /\ shown \subseteq DefinedPositions(data)
       /\ S # {} =>
            /\ \E i \in shown : data[i].actual.num = SetMin(S)
            /\ \E i \in shown : data[i].actual.num = SetMax(S)

\* different least and greatest numbers around points without a number
ExtremaAreMinAndMaxWitness ==
    LET data == processedChartData
        S == DefinedNumbers(data)
    IN /\ Cardinality(S) >= 2
       /\ data[1].actual.type # "number"
       /\ Len(visibleMinMaxPoints) = 2
       /\ visibleMinMaxPoints[1] # visibleMinMaxPoints[2]

(* C6: the min point (max point) is the first point of the series, in      *)
(* order, whose value is the minimum (maximum): no earlier point has it.   *)
ExtremaAreFirstOccurrences ==
    LET data == processedChartData
        S == DefinedNumbers(data)
        n == Len(visibleMinMaxPoints)
    IN S # {} =>
         /\ n >= 1
         \* the min point comes first and the max point last
         /\ visibleMinMaxPoints[1] = FirstPositionOf(data, SetMin(S))
         /\ visibleMinMaxPoints[n] = FirstPositionOf(data, SetMax(S))

\* the minimum is reached twice in a series that is not flat
ExtremaAreFirstOccurrencesWitness ==
    LET data == processedChartData
        S == DefinedNumbers(data)
    IN /\ Cardinality(S) >= 2
       /\ \E i, j \in DefinedPositions(data) :
             /\ i < j
             /\ data[i].actual.num = SetMin(S)
             /\ data[j].actual.num = SetMin(S)
             /\ visibleMinMaxPoints[1] = i

(* C7: for an empty series, or one in which no point carries a number,     *)
(* the Min/Max points are empty.                                           *)
NoNumberNoExtrema ==
    DefinedNumbers(processedChartData) = {} => visibleMinMaxPoints = <<>>

\* a series of a string and a gap has no Min/Max point
NoNumberNoExtremaWitness ==
    /\ DefinedNumbers(processedChartData) = {}
    /\ \E i, j \in 1..Len(processedChartData) :
          /\ processedChartData[i].actual.type = "string"
          /\ processedChartData[j].actual.type = "undefined"
    /\ visibleMinMaxPoints = <<>>

(* C8: the projected series is as long as the raw series and its i-th      *)
(* point has the time label of the i-th reading.                           *)
ProjectionKeepsLengthAndOrder ==
    /\ Len(processedChartData) = Len(chartData)
    /\ \A i \in 1..Len(chartData) :
          processedChartData[i].time = chartData[i].time

\* a series of several readings, some without a number for the parameter
ProjectionKeepsLengthAndOrderWitness ==
    /\ Len(chartData) >= 3
    /\ Len(processedChartData) = Len(chartData)
    /\ \E i, j \in 1..Len(chartData) :
          /\ i < j
          /\ RawValue(chartData[i], selectedParameter).type = "undefined"
          /\ RawValue(chartData[j], selectedParameter).type = "number"

(* C9: a projected point carries a number exactly when its reading carries *)
(* one for the selected parameter, and then that number; a missing, null   *)
(* or non-numeric value never becomes a number.                            *)
ProjectionFabricatesNoValue ==
    \A i \in 1..Len(chartData) :
        LET raw == RawValue(chartData[i], selectedParameter)
            shown == processedChartData[i].actual
        IN /\ i \in DOMAIN processedChartData
           /\ (shown.type = "number") <=> (raw.type = "number")
           /\ raw.type = "number" => shown = raw

\* a null, a string and a missing value are projected
ProjectionFabricatesNoValueWitness ==
    \E i, j, k \in 1..Len(chartData) :
        /\ RawValue(chartData[i], selectedParameter).type = "null"
        /\ RawValue(chartData[j], selectedParameter).type = "string"
        /\ RawValue(chartData[k], selectedParameter).type = "undefined"
        /\ processedChartData[k].actual.type = "undefined"

(* C10: updateThreshold with a text that holds no number changes none of   *)
(* the ten slots, and getCurrentThreshold gives for every parameter what   *)
(* it gave before the call.                                                *)
NonNumericUpdateIsNoOp ==
    [][\A type \in ThresholdTypes, value \in InputValues :
          (~HasLeadingInteger(value) /\ updateThreshold(type, value))
             => /\ thresholds' = thresholds
                /\ \A p \in Parameters :
                      GetCurrentThreshold(thresholds', p)
                         = GetCurrentThreshold(thresholds, p)]_vars

\* a call was ignored after an edit, and the upper bound is still 730
NonNumericUpdateIsNoOpWitness ==
    /\ lastUpdate = "ignored"
    /\ nEdits > 0
    /\ GetCurrentThreshold(thresholds, "metal_temperature").upper
          = [type |-> "number", num |-> 730, inf |-> 0]

(* C11: each of the five parameters always has a thresholds record whose   *)
(* two bounds are defined integers, after any edits and parameter switches *)
(* from the defaults.                                                      *)
EveryParameterHasBothBounds ==
    \A p \in Parameters :
        LET record == GetCurrentThreshold(thresholds, p)
        IN /\ DOMAIN record = {"upper", "lower"}
           /\ \A b \in {"upper", "lower"} :
                 /\ record[b].type = "number"
                 /\ record[b].inf = 0
                 /\ record[b].num \in Int

\* two edits were stored, one of them for a parameter other than the first
EveryParameterHasBothBoundsWitness ==
    /\ nEdits >= 2
    /\ selectedParameter = "tilting_speed"
    /\ thresholds.tiltingSpeedThreshold # DefaultThresholds.tiltingSpeedThreshold
    /\ thresholds.metalTempLowerThreshold # DefaultThresholds.metalTempLowerThreshold

(* C13: a parameter switch changes no stored threshold: after it           *)
(* getCurrentThreshold gives for every parameter the pair it gave before,  *)
(* and the bounds shown are those stored for the parameter switched to.    *)
SwitchKeepsThresholds ==
    [][selectedParameter' # selectedParameter
          => /\ thresholds' = thresholds
             /\ \A p \in Parameters :
                   GetCurrentThreshold(thresholds', p)
                      = GetCurrentThreshold(thresholds, p)
             /\ currentThreshold'
                   = GetCurrentThreshold(thresholds, selectedParameter')]_vars

\* the upper bound of metal_temperature was edited, the operator switched
\* away, edited there, and came back: the edited bound is shown again
SwitchKeepsThresholdsWitness ==
    /\ selectedParameter = "metal_temperature"
    /\ thresholds.metalTempThreshold # DefaultThresholds.metalTempThreshold
    /\ \E slot \in DOMAIN thresholds \ {"metalTempThreshold", "metalTempLowerThreshold"} :
          thresholds[slot] # DefaultThresholds[slot]
    /\ currentThreshold.upper.num = thresholds.metalTempThreshold

(* C14: whenever a bound of the selected parameter is a number, the        *)
(* reference line of that bound is drawn at that number; a line is missing *)
(* only when the bound is not set.                                         *)
LineDrawnForEveryStoredBound ==
    \A b \in {"upper", "lower"} :
        currentThreshold[b].type = "number"
           => referenceLines[b] = currentThreshold[b]

(* C16: the is_violation flag of the i-th projected point is the flag of   *)
(* the i-th reading, whatever the value of the point, the thresholds and   *)
(* the selected parameter.                                                 *)
FlagIsTheDeliveredFlag ==
    /\ Len(processedChartData) = Len(chartData)
    /\ \A i \in 1..Len(chartData) :
          processedChartData[i].is_violation = chartData[i].is_violation

\* a flagged reading without a number for the selected parameter, next to
\* an unflagged reading with a number outside the bounds
FlagIsTheDeliveredFlagWitness ==
    \E i, j \in 1..Len(chartData) :
        /\ chartData[i].is_violation
        /\ processedChartData[i].is_violation
        /\ RawValue(chartData[i], selectedParameter).type # "number"
        /\ ~chartData[j].is_violation
        /\ ~processedChartData[j].is_violation
        /\ RawValue(chartData[j], selectedParameter).type = "number"
        /\ RawValue(chartData[j], selectedParameter).num
              < GetCurrentThreshold(thresholds, selectedParameter).lower.num

\* the series was fetched for the parameter: each of its readings carries a
\* value under that key
FetchedFor(data, parameter) ==
    \A i \in 1..Len(data) : parameter \in DOMAIN data[i].vals

ThresholdsDoNotInterfere ==
    [][/\ thresholds' # thresholds
            => /\ chartData' = chartData
               /\ selectedParameter' = selectedParameter
               /\ inFlight' = inFlight
               /\ availableFeatures' = availableFeatures
       /\ (chartData' = chartData /\ selectedParameter' = selectedParameter)
            => /\ processedChartData' = processedChartData
               /\ yDomain' = yDomain
               /\ visibleMinMaxPoints' = visibleMinMaxPoints]_vars

\* the upper bound of the selected parameter is below a value shown, and
\* the point of that value is not flagged
ThresholdsDoNotInterfereWitness ==
    /\ selectedParameter \in Parameters
    /\ thresholds # DefaultThresholds
    /\ \E i \in 1..Len(processedChartData) :
          /\ processedChartData[i].actual.type = "number"
          /\ currentThreshold.upper.type = "number"
          /\ processedChartData[i].actual.num > currentThreshold.upper.num
          /\ ~processedChartData[i].is_violation

(* C17: the selected parameter is always one of the five parameters.       *)
SelectedParameterIsRecognized ==
    selectedParameter \in Parameters

(* C18: a series on display while one of the five parameters is selected   *)
(* was fetched for that parameter.                                         *)
SeriesIsOfSelectedParameter ==
    (chartData # <<>> /\ selectedParameter \in Parameters)
       => FetchedFor(chartData, selectedParameter)

(* C19: once no chart_data request is in flight and none has failed, the   *)
(* stored series is the one fetched for the selected parameter.            *)
LatestSelectionWins ==
    (/\ inFlight = {}
     /\ ~failed
     /\ selectedParameter \in Parameters)
       => /\ chartData # <<>>
          /\ FetchedFor(chartData, selectedParameter)

(* C20: the stored series changes only when a chart_data fetch completes,  *)
(* and then it is the data of that response, or empty when the fetch       *)
(* failed: never the former series with readings added.                    *)
SeriesReplacedWholesale ==
    [][/\ chartData' # chartData
            => \E req \in inFlight : \E resp \in Responses(req) :
                  ReceiveChartData(req, resp)
       /\ \A req \in inFlight : \A resp \in Responses(req) :
             ReceiveChartData(req, resp)
                => chartData' = IF resp.ok THEN resp.data ELSE <<>>]_vars

\* two fetches have completed, none has failed, and the series stored by
\* the first was replaced by that of another parameter
SeriesReplacedWholesaleWitness ==
    /\ nRequests - Cardinality(inFlight) >= 2
    /\ ~failed
    /\ Len(chartData) = 2
    /\ ~FetchedFor(chartData, "metal_temperature")

\* the integer a text starts with, as a value
LeadingInteger(value) == [type |-> "number", num |-> ParseInt(value).n, inf |-> 0]

\* the other side of a thresholds pair
OtherSide(type) == IF type = "upper" THEN "lower" ELSE "upper"

(* C21: an edit whose number leaves the lower bound above the upper bound  *)
(* is stored like any other: getCurrentThreshold then gives the pair with  *)
(* that number on the edited side and the other side as it was.            *)
CrossedBoundsAreAccepted ==
    [][\A type \in ThresholdTypes, value \in InputValues :
          LET asSet == [currentThreshold EXCEPT ![type] = LeadingInteger(value)]
          IN (/\ HasLeadingInteger(value)
              /\ updateThreshold(type, value)
              /\ asSet.lower.num > asSet.upper.num)
                => /\ currentThreshold' = asSet
                   /\ GetCurrentThreshold(thresholds', selectedParameter)
                         = asSet]_vars

\* the lower bound of the selected parameter is above its upper bound
CrossedBoundsAreAcceptedWitness ==
    /\ lastUpdate = "stored"
    /\ currentThreshold.lower.type = "number"
    /\ currentThreshold.upper.type = "number"
    /\ currentThreshold.lower.num > currentThreshold.upper.num

(* C22: an edit with a text that starts with an integer sets the edited    *)
(* side of the selected parameter to that integer and changes no other     *)
(* slot: the other side of that parameter and both bounds of the four      *)
(* other parameters are as before.                                         *)
EditChangesOneSlot ==
    [][\A type \in ThresholdTypes, value \in InputValues :
          (HasLeadingInteger(value) /\ updateThreshold(type, value))
             => LET before == GetCurrentThreshold(thresholds, selectedParameter)
                    after == GetCurrentThreshold(thresholds', selectedParameter)
                IN /\ after[type] = LeadingInteger(value)
                   /\ after[OtherSide(type)] = before[OtherSide(type)]
                   /\ \A p \in Parameters \ {selectedParameter} :
                         GetCurrentThreshold(thresholds', p)
                            = GetCurrentThreshold(thresholds, p)
                   /\ Cardinality({slot \in DOMAIN thresholds :
                                     thresholds'[slot] # thresholds[slot]}) <= 1]_vars

\* the lower bound of tilting_speed was edited: its upper bound and the
\* bounds of metal_temperature are the defaults
EditChangesOneSlotWitness ==
    /\ lastUpdate = "stored"
    /\ selectedParameter = "tilting_speed"
    /\ thresholds.tiltingSpeedLowerThreshold
          # DefaultThresholds.tiltingSpeedLowerThreshold
    /\ thresholds.tiltingSpeedThreshold = DefaultThresholds.tiltingSpeedThreshold
    /\ thresholds.metalTempThreshold = DefaultThresholds.metalTempThreshold

FailedFetchClearsSeries ==
    [][\A req \in inFlight : \A resp \in Responses(req) :
          (ReceiveChartData(req, resp) /\ ~resp.ok)
             => /\ chartData' = <<>>
                /\ processedChartData' = <<>>
                /\ yDomain' = <<0, 100>>
                /\ visibleMinMaxPoints' = <<>>]_vars

\* a fetch has failed after one that brought a series and its columns
FailedFetchClearsSeriesWitness ==
    /\ failed
    /\ availableFeatures # <<>>
    /\ chartData = <<>>
    /\ yDomain = <<0, 100>>

\* the fetchInitialData calls in progress
LoadsInProgress == {op \in ops : op.pc \in {"health", "machines", "alerts"}}

\* the /train requests in flight
TrainsInFlight == {op \in ops : op.pc = "train"}

\* the members of a list
Members(list) == {list[i] : i \in DOMAIN list}

(* C24: a successful /machines answer stores its list and selects: no      *)
(* machine when the list is empty; its first machine when the load follows *)
(* an upload or a retrain, or when the selection is not in the list; the   *)
(* machine selected before otherwise.  And when no load is in progress and *)
(* the dashboard is ready, the selection is '' or in the stored list.      *)
MachineSelectionFollowsLoad ==
    [][/\ \A op \in ops : \A out \in MachinesOutcomes :
             (ReceiveMachines(op, out) /\ out.kind = "ok")
                => /\ machines' = out.machines
                   /\ selectedMachine' =
                         IF out.machines = <<>>
                         THEN ""
                         ELSE IF \/ op.caller \in {"upload", "train"}
                                 \/ selectedMachine \notin Members(out.machines)
                              THEN out.machines[1]
                              ELSE selectedMachine
       /\ (LoadsInProgress' = {} /\ appStatus' = "ready")
             => selectedMachine' \in Members(machines') \cup {""}]_vars

\* the first machine of a new list is selected after an upload or a
\* retrain, while a request for the machine selected before is in flight
MachineSelectionFollowsLoadWitness ==
    /\ ops = {}
    /\ appStatus = "ready"
    /\ machines = <<"M2", "M1">>
    /\ selectedMachine = "M2"
    /\ \E req \in inFlight : req.machine = "M1"

(* C26: at most one /train request is in flight.                           *)
AtMostOneTrainInFlight ==
    Cardinality(TrainsInFlight) <= 1

(* C27: when no fetchInitialData call is in progress, appStatus 'error' or *)
(* 'initializing' goes with isConnected false, and 'ready' or 'no_data'    *)
(* with isConnected true.                                                  *)
StatusAndConnectionAgree ==
    LoadsInProgress = {}
       => /\ appStatus \in {"error", "initializing"} => ~isConnected
          /\ appStatus \in {"ready", "no_data"} => isConnected

(* C28: a polling tick at which isConnected is true re-fetches alerts and  *)
(* metrics.                                                                *)
ConnectedTickPolls ==
    [][(nTicks' # nTicks /\ isConnected) => nPolls' = nPolls + 1]_vars

(* C29: a chart_data request is sent only in a state where appStatus is    *)
(* 'ready' and a machine and a parameter are selected, and it is sent for  *)
(* that machine and that parameter.                                        *)
RequestOnlyWhenReady ==
    [][\A req \in inFlight' \ inFlight :
          /\ appStatus' = "ready"
          /\ selectedMachine' # ""
          /\ selectedParameter' # ""
          /\ req.machine = selectedMachine'
          /\ req.parameter = selectedParameter']_vars

\* a load has failed with a machine selected: the requests in flight are
\* those sent while the dashboard was ready
RequestOnlyWhenReadyWitness ==
    /\ appStatus = "error"
    /\ selectedMachine # ""
    /\ ops = {}
    /\ Cardinality(inFlight) >= 2

(* C30: when no operation is in progress isLoading and isUploading are     *)
(* false, and whenever operations are in progress a state follows in which *)
(* none is and both flags are false.                                       *)
BusyFlagsReleased ==
    /\ [](ops = {} => (~isLoading /\ ~isUploading))
    /\ (ops # {}) ~> (ops = {} /\ ~isLoading /\ ~isUploading)

\* the initial load, an upload and a retrain have ended
BusyFlagsReleasedWitness ==
    /\ ops = {}
    /\ nOps >= 3
    /\ isConnected
    /\ ~isLoading
    /\ ~isUploading

=============================================================================
